---- MODULE Spec2Model ----
(***************************************************************************)
(* Chunk loading/unloading around a moving player (src/chunk_world.py).    *)
(*                                                                         *)
(* The state is the ChunkManager (chunks, load_queue, unload_queue,        *)
(* required), the Game settings (hex_mode, padding, slowmo_mode,           *)
(* slowmo_frame_counter, slowmo_interval, last_chunk), the Player position *)
(* and the position of the main loop (pc).  One action per handler of      *)
(* Game.run.  `ev`, `prev_call` and `fault` are history variables: they    *)
(* record which ChunkManager method the last handler called, with which    *)
(* arguments and what it created or destroyed; no handler reads them.      *)
(* `deferred_updates` and `deferred_frames` count the update calls and the *)
(* passes of the main loop made in deferred mode since that mode was last  *)
(* switched on; no handler reads or writes them, the next-state relations  *)
(* keep them and use them to bound the exploration.                        *)
(*                                                                         *)
(* Six specifications share the handlers:                                  *)
(*   Spec        the constructed game, both modes, in a corridor below the *)
(*               start cell;                                               *)
(*   SpecCells   immediate mode around any cell of a box, with every       *)
(*               topology and padding (the region selector and the         *)
(*               coordinate mapper);                                       *)
(*   SpecConfig  adjust_padding and adjust_slowmo_interval with small and  *)
(*               large deltas;                                             *)
(*   SpecLive    Spec without the budget of loop passes and with the       *)
(*               fairness of the main loop;                                *)
(*   SpecTrack   both modes around cell edges of even and odd rows, where  *)
(*               the cell of a position depends on the topology;           *)
(*   SpecCounter the main loop, toggle_slowmo and adjust_slowmo_interval   *)
(*               with small and large deltas, the player standing still.   *)
(***************************************************************************)
EXTENDS Integers, Sequences, FiniteSets

VARIABLES chunks, load_queue, unload_queue, required,
          hex_mode, padding, slowmo_mode, slowmo_frame_counter,
          slowmo_interval, player, last_chunk, pc,
          ev, prev_call, fault, deferred_updates, deferred_frames

mgr == <<chunks, load_queue, unload_queue, required>>
vars == <<chunks, load_queue, unload_queue, required,
          hex_mode, padding, slowmo_mode, slowmo_frame_counter,
          slowmo_interval, player, last_chunk, pc,
          ev, prev_call, fault, deferred_updates, deferred_frames>>

(***************************************************************************)
(* Program constants.                                                      *)
(***************************************************************************)
CHUNK_SIZE == 100
PLAYER_SPEED == 4
DEFAULT_SLOWMO_INTERVAL == 20
max_padding == 4

(***************************************************************************)
(* Bounds of the model.                                                    *)
(***************************************************************************)
\* The player stays within MaxStepsX moves right and MaxStepsY moves down
\* of the start position.
MaxStepsX == 0
MaxStepsY == 13
\* adjust_padding is explored while padding stays <= MaxPad.
MaxPad == 1
\* adjust_slowmo_interval is explored while it sets an interval <= MaxInterval,
\* and deferred mode is explored with such an interval.
MaxInterval == 2
\* A Python set of at most MaxPerm elements is iterated in any order; a
\* larger one in ascending or descending coordinate order.
MaxPerm == 2
\* At most MaxDeferredUpdates calls of update are explored in one stretch of
\* deferred mode.
MaxDeferredUpdates == 2
\* At most MaxDeferredFrames passes of the main loop are explored in one
\* stretch of deferred mode.
MaxDeferredFrames == 3
\* SpecCells starts the player in any cell with both coordinates in
\* -MaxCell..MaxCell.
MaxCell == 2
\* SpecConfig passes the deltas -MaxDelta, -1, 0, 1 and MaxDelta to
\* adjust_padding and adjust_slowmo_interval, and explores intervals up to
\* MaxConfigInterval.
MaxDelta == 7
MaxConfigInterval == 24
\* SpecTrack: the rows of the cells the player starts in are -MaxRow..MaxRow
MaxRow == 1

(***************************************************************************)
(* Sequences and sets.                                                     *)
(***************************************************************************)
Range(s) == {s[i] : i \in 1..Len(s)}

Min(N) == CHOOSE v \in N : \A w \in N : v <= w
Max(N) == CHOOSE v \in N : \A w \in N : v >= w

\* the coordinates of S in ascending order (by x, then by y): the cells of
\* the bounding box of S in that order, those outside S left out
Ascending(S) ==
    IF S = {} THEN <<>>
    ELSE LET x0 == Min({c[1] : c \in S})
             x1 == Max({c[1] : c \in S})
             y0 == Min({c[2] : c \in S})
             y1 == Max({c[2] : c \in S})
             h  == y1 - y0 + 1
             box == [i \in 1..((x1 - x0 + 1) * h) |->
                         <<x0 + ((i - 1) \div h), y0 + ((i - 1) % h)>>]
         IN  SelectSeq(box, LAMBDA c : c \in S)

Reverse(s) == [i \in 1..Len(s) |-> s[Len(s) + 1 - i]]

\* The orders in which `for coord in S` may visit a Python set: the language
\* leaves the order open.
IterationOrders(S) ==
    IF Cardinality(S) <= MaxPerm
    THEN {s \in [1..Cardinality(S) -> S] : \A i, j \in 1..Cardinality(S) : s[i] = s[j] => i = j}
    ELSE {Ascending(S), Reverse(Ascending(S))}

\* The immediate branch of update only deletes and inserts, so its result is
\* the same for every order of its two loops: one order is explored there.
LoopOrders(S, slowmo) == IF slowmo THEN IterationOrders(S) ELSE {Ascending(S)}

(***************************************************************************)
(* ChunkManager.get_required_chunks.  The float test                       *)
(*   eff_dx*eff_dx + dy*dy <= (radius + 0.35) ** 2                         *)
(* is computed in integers scaled by 400: eff_dx is a multiple of 1/2, so  *)
(* the left side is a multiple of 100 and the right side is                *)
(* (20*radius + 7)^2, which is 49 modulo 100: the two sides differ by at   *)
(* least 1/400, far more than the rounding error of the float square.      *)
(***************************************************************************)
\* mutant: eff_dx = dx + x_offset whatever the parity of the centre row
hex_admits_one_direction(center_y, dx, dy, radius) ==
    LET chunk_y  == center_y + dy
        x_offset2 == IF (chunk_y % 2) # (center_y % 2) THEN 1 ELSE 0
        eff_dx2  == 2 * dx + x_offset2
    IN  100 * (eff_dx2 * eff_dx2 + 4 * dy * dy) <= (20 * radius + 7) * (20 * radius + 7)

\* mutant: x_offset is always 0, rows of the other parity are not shifted
hex_admits_no_offset(center_y, dx, dy, radius) ==
    LET eff_dx2 == 2 * dx
    IN  100 * (eff_dx2 * eff_dx2 + 4 * dy * dy) <= (20 * radius + 7) * (20 * radius + 7)

hex_admits(center_y, dx, dy, radius) ==
    LET chunk_y  == center_y + dy
        x_offset2 == IF (chunk_y % 2) # (center_y % 2) THEN 1 ELSE 0
        eff_dx2  == IF center_y % 2 = 0 THEN 2 * dx + x_offset2
                                         ELSE 2 * dx - x_offset2
    IN  100 * (eff_dx2 * eff_dx2 + 4 * dy * dy) <= (20 * radius + 7) * (20 * radius + 7)

\* mutant: range(-radius, radius) in the square branch, the last offset lost
get_required_chunks_open_range(center_x, center_y, hex, pad) ==
    LET radius == pad + 1
    IN  IF ~hex
        THEN {<<center_x + dx, center_y + dy>> :
                  dx \in (-radius)..(radius - 1), dy \in (-radius)..(radius - 1)}
        ELSE {<<center_x + d[1], center_y + d[2]>> :
                  d \in {e \in ((-radius)..radius) \X ((-radius)..radius) :
                             hex_admits(center_y, e[1], e[2], radius)}}

\* mutant: the centre itself is skipped (the neighbours only)
get_required_chunks_neighbours_only(center_x, center_y, hex, pad) ==
    LET radius == pad + 1
        offsets == (((-radius)..radius) \X ((-radius)..radius)) \ {<<0, 0>>}
    IN  IF ~hex
        THEN {<<center_x + d[1], center_y + d[2]>> : d \in offsets}
        ELSE {<<center_x + d[1], center_y + d[2]>> :
                  d \in {e \in offsets : hex_admits(center_y, e[1], e[2], radius)}}

get_required_chunks(center_x, center_y, hex, pad) ==
    LET radius == pad + 1
    IN  IF ~hex
        THEN {<<center_x + dx, center_y + dy>> :
                  dx \in (-radius)..radius, dy \in (-radius)..radius}
        ELSE {<<center_x + d[1], center_y + d[2]>> :
                  d \in {e \in ((-radius)..radius) \X ((-radius)..radius) :
                             hex_admits(center_y, e[1], e[2], radius)}}

(***************************************************************************)
(* Player.get_chunk_coords.  \div is floor division, as math.floor; the    *)
(* position is an integer (it starts at CHUNK_SIZE // 2 and moves by       *)
(* multiples of PLAYER_SPEED), and CHUNK_SIZE * 0.5 is the integer 50.     *)
(***************************************************************************)
\* mutant: int(v / CHUNK_SIZE) in place of int(math.floor(v / CHUNK_SIZE)):
\* the quotient is cut towards zero
get_chunk_coords_truncating(p, hex) ==
    LET trunc(v) == IF v >= 0 THEN v \div CHUNK_SIZE ELSE -((-v) \div CHUNK_SIZE)
        chunk_y    == trunc(p.y)
        x_adjusted == IF hex /\ chunk_y % 2 # 0 THEN p.x - (CHUNK_SIZE \div 2) ELSE p.x
    IN  <<trunc(x_adjusted), chunk_y>>

get_chunk_coords(p, hex) ==
    LET chunk_y    == p.y \div CHUNK_SIZE
        x_adjusted == IF hex /\ chunk_y % 2 # 0 THEN p.x - (CHUNK_SIZE \div 2) ELSE p.x
    IN  <<x_adjusted \div CHUNK_SIZE, chunk_y>>

(***************************************************************************)
(* Game.chunk_world_pos: the top-left corner of a chunk in the world; hex   *)
(* is self.hex_mode.                                                        *)
(***************************************************************************)
chunk_world_pos(chunk_x, chunk_y, hex) ==
    LET world_x == chunk_x * CHUNK_SIZE
    IN  <<IF hex /\ chunk_y % 2 # 0 THEN world_x + (CHUNK_SIZE \div 2) ELSE world_x,
          chunk_y * CHUNK_SIZE>>

(***************************************************************************)
(* ChunkManager.update.  A call returns the new fields of the manager and, *)
(* for the history variables, what it created and destroyed, how many      *)
(* queue entries it kept, cancelled and appended, and whether a            *)
(* `del self.chunks[coord]` met an absent key (Python raises KeyError) or  *)
(* an assignment `self.chunks[coord] = ...` replaced a resident chunk.     *)
(***************************************************************************)
\* mutant: the operands of the set difference swapped
to_unload_swapped(current, req) == req \ current

to_unload(current, req) == current \ req

\* mutant: to_load = self.required, the resident chunks not taken out
to_load_required(current, req) == req

to_load(current, req) == req \ current

\* mutant: every coordinate of to_unload is appended, queued already or not
enqueue_unloads_unchecked(uq, order) == uq \o order

\* for coord in to_unload: if coord not in self.unload_queue: append.
\* The loop visits a set, so no coordinate twice: an append never changes the
\* test of a later coordinate, and the loop appends, in the order of the
\* visit, the coordinates that were not in the queue when it began.
enqueue_unloads(uq, order) ==
    uq \o SelectSeq(order, LAMBDA c : c \notin Range(uq))

\* mutant: each new load is inserted at the head of the queue
enqueue_loads_front(lq, order, ch) ==
    Reverse(SelectSeq(order, LAMBDA c : c \notin Range(lq) /\ c \notin ch)) \o lq

\* for coord in to_load: if coord not in self.load_queue and coord not in
\* self.chunks: append (again a loop over a set)
enqueue_loads(lq, order, ch) ==
    lq \o SelectSeq(order, LAMBDA c : c \notin Range(lq) /\ c \notin ch)

\* mutant: queued loads are never cancelled
cancel_loads_none(lq, req) == lq

cancel_loads(lq, req) == SelectSeq(lq, LAMBDA c : c \in req)

cancel_unloads(uq, req) == SelectSeq(uq, LAMBDA c : c \notin req)

\* mutant: the deferred branch destroys the chunks of to_unload at once
update_deferred_applies_unloads(ch, lq, uq, req, uo, lo) ==
    LET uq1 == enqueue_unloads(uq, uo)
        lq1 == enqueue_loads(lq, lo, ch)
        lq2 == cancel_loads(lq1, req)
        uq2 == cancel_unloads(uq1, req)
    IN  [chunks |-> ch \ Range(uo), load_queue |-> lq2, unload_queue |-> uq2,
         created |-> {}, destroyed |-> ch \cap Range(uo),
         kept_l |-> Len(cancel_loads(lq, req)),
         kept_u |-> Len(cancel_unloads(uq, req)),
         cancelled_l |-> Len(lq1) - Len(lq2),
         cancelled_u |-> Len(uq1) - Len(uq2),
         appended_l |-> Len(lq1) - Len(lq),
         appended_u |-> Len(uq1) - Len(uq),
         fault |-> "none"]

\* the branch `if slowmo:`; uo and lo are the orders in which the two loops
\* visit to_unload and to_load
update_deferred(ch, lq, uq, req, uo, lo) ==
    LET uq1 == enqueue_unloads(uq, uo)
        lq1 == enqueue_loads(lq, lo, ch)
        lq2 == cancel_loads(lq1, req)
        uq2 == cancel_unloads(uq1, req)
    IN  [chunks |-> ch, load_queue |-> lq2, unload_queue |-> uq2,
         created |-> {}, destroyed |-> {},
         kept_l |-> Len(cancel_loads(lq, req)),
         kept_u |-> Len(cancel_unloads(uq, req)),
         cancelled_l |-> Len(lq1) - Len(lq2),
         cancelled_u |-> Len(uq1) - Len(uq2),
         appended_l |-> Len(lq1) - Len(lq),
         appended_u |-> Len(uq1) - Len(uq),
         fault |-> "none"]

\* mutant: the immediate branch skips the unload loop
update_immediate_no_unload(ch, lq, uq, req, uo, lo) ==
    [chunks |-> ch \cup Range(lo), load_queue |-> <<>>, unload_queue |-> <<>>,
     created |-> Range(lo), destroyed |-> {},
     kept_l |-> 0, kept_u |-> 0,
     cancelled_l |-> Len(lq), cancelled_u |-> Len(uq),
     appended_l |-> 0, appended_u |-> 0,
     fault |-> IF Range(lo) \cap ch # {} THEN "overwrite" ELSE "none"]

\* mutant: the immediate branch creates every required chunk anew
update_immediate_reloads(ch, lq, uq, req, uo, lo) ==
    LET after_del == ch \ Range(uo)
    IN  [chunks |-> after_del \cup req, load_queue |-> <<>>, unload_queue |-> <<>>,
         created |-> req, destroyed |-> ch \cap Range(uo),
         kept_l |-> 0, kept_u |-> 0,
         cancelled_l |-> Len(lq), cancelled_u |-> Len(uq),
         appended_l |-> 0, appended_u |-> 0,
         fault |-> IF ~(Range(uo) \subseteq ch) THEN "KeyError"
                   ELSE IF req \cap after_del # {} THEN "overwrite"
                   ELSE "none"]

\* the branch `else:`; the loops visit sets, so each coordinate once
update_immediate(ch, lq, uq, req, uo, lo) ==
    LET after_del == ch \ Range(uo)
    IN  [chunks |-> after_del \cup Range(lo), load_queue |-> <<>>, unload_queue |-> <<>>,
         created |-> Range(lo), destroyed |-> ch \cap Range(uo),
         kept_l |-> 0, kept_u |-> 0,
         cancelled_l |-> Len(lq), cancelled_u |-> Len(uq),
         appended_l |-> 0, appended_u |-> 0,
         fault |-> IF ~(Range(uo) \subseteq ch) THEN "KeyError"
                   ELSE IF Range(lo) \cap after_del # {} THEN "overwrite"
                   ELSE "none"]

update(ch, lq, uq, req, slowmo, uo, lo) ==
    IF slowmo THEN update_deferred(ch, lq, uq, req, uo, lo)
    ELSE update_immediate(ch, lq, uq, req, uo, lo)

\* mutant: the branch `elif self.load_queue:` is missing, loads are never
\* applied
process_slowmo_tick_unloads_only(ch, lq, uq) ==
    IF uq # <<>>
    THEN LET coord == Head(uq)
         IN  [chunks |-> IF coord \in ch THEN ch \ {coord} ELSE ch,
              load_queue |-> lq, unload_queue |-> Tail(uq),
              created |-> {}, destroyed |-> IF coord \in ch THEN {coord} ELSE {},
              fault |-> "none"]
    ELSE [chunks |-> ch, load_queue |-> lq, unload_queue |-> uq,
          created |-> {}, destroyed |-> {}, fault |-> "none"]

\* mutant: the load branch reads load_queue[0] without popping it
process_slowmo_tick_peek(ch, lq, uq) ==
    IF uq # <<>>
    THEN LET coord == Head(uq)
         IN  [chunks |-> IF coord \in ch THEN ch \ {coord} ELSE ch,
              load_queue |-> lq, unload_queue |-> Tail(uq),
              created |-> {}, destroyed |-> IF coord \in ch THEN {coord} ELSE {},
              fault |-> "none"]
    ELSE IF lq # <<>>
    THEN LET coord == Head(lq)
         IN  [chunks |-> IF coord \notin ch THEN ch \cup {coord} ELSE ch,
              load_queue |-> lq, unload_queue |-> uq,
              created |-> IF coord \notin ch THEN {coord} ELSE {}, destroyed |-> {},
              fault |-> "none"]
    ELSE [chunks |-> ch, load_queue |-> lq, unload_queue |-> uq,
          created |-> {}, destroyed |-> {}, fault |-> "none"]

\* mutant: the two branches in the other order, loads served first
process_slowmo_tick_loads_first(ch, lq, uq) ==
    IF lq # <<>>
    THEN LET coord == Head(lq)
         IN  [chunks |-> IF coord \notin ch THEN ch \cup {coord} ELSE ch,
              load_queue |-> Tail(lq), unload_queue |-> uq,
              created |-> IF coord \notin ch THEN {coord} ELSE {}, destroyed |-> {},
              fault |-> "none"]
    ELSE IF uq # <<>>
    THEN LET coord == Head(uq)
         IN  [chunks |-> IF coord \in ch THEN ch \ {coord} ELSE ch,
              load_queue |-> lq, unload_queue |-> Tail(uq),
              created |-> {}, destroyed |-> IF coord \in ch THEN {coord} ELSE {},
              fault |-> "none"]
    ELSE [chunks |-> ch, load_queue |-> lq, unload_queue |-> uq,
          created |-> {}, destroyed |-> {}, fault |-> "none"]

(***************************************************************************)
(* ChunkManager.process_slowmo_tick.                                       *)
(***************************************************************************)
process_slowmo_tick(ch, lq, uq) ==
    IF uq # <<>>
    THEN LET coord == Head(uq)
         IN  [chunks |-> IF coord \in ch THEN ch \ {coord} ELSE ch,
              load_queue |-> lq, unload_queue |-> Tail(uq),
              created |-> {}, destroyed |-> IF coord \in ch THEN {coord} ELSE {},
              fault |-> "none"]
    ELSE IF lq # <<>>
    THEN LET coord == Head(lq)
         IN  [chunks |-> IF coord \notin ch THEN ch \cup {coord} ELSE ch,
              load_queue |-> Tail(lq), unload_queue |-> uq,
              created |-> IF coord \notin ch THEN {coord} ELSE {}, destroyed |-> {},
              fault |-> "none"]
    ELSE [chunks |-> ch, load_queue |-> lq, unload_queue |-> uq,
          created |-> {}, destroyed |-> {}, fault |-> "none"]

(***************************************************************************)
(* History records.                                                        *)
(***************************************************************************)
NoCounts == [kept_l |-> 0, kept_u |-> 0, cancelled_l |-> 0, cancelled_u |-> 0,
             appended_l |-> 0, appended_u |-> 0]

\* the handler called no method of the ChunkManager
NoCall ==
    [op |-> "none", by |-> "", args |-> <<>>, repeat |-> FALSE,
     created |-> {}, destroyed |-> {}, counts |-> NoCounts]

\* repeat: the ChunkManager's previous call was an update with these arguments
UpdateCall(by, args, repeat, r) ==
    [op |-> "update", by |-> by, args |-> args, repeat |-> repeat,
     created |-> r.created, destroyed |-> r.destroyed,
     counts |-> [kept_l |-> r.kept_l, kept_u |-> r.kept_u,
                 cancelled_l |-> r.cancelled_l, cancelled_u |-> r.cancelled_u,
                 appended_l |-> r.appended_l, appended_u |-> r.appended_u]]

TickCall(by, r) ==
    [op |-> "tick", by |-> by, args |-> <<>>, repeat |-> FALSE,
     created |-> r.created, destroyed |-> r.destroyed, counts |-> NoCounts]

(***************************************************************************)
(* self.chunk_manager.update(cx, cy, hex, slowmo, pad), called by `by`.    *)
(***************************************************************************)
call_update(by, cx, cy, hex, slowmo, pad) ==
    LET req == get_required_chunks(cx, cy, hex, pad)
    IN  \E uo \in LoopOrders(to_unload(chunks, req), slowmo),
           lo \in LoopOrders(to_load(chunks, req), slowmo) :
            LET r == update(chunks, load_queue, unload_queue, req, slowmo, uo, lo)
            IN  /\ required' = req
                /\ chunks' = r.chunks
                /\ load_queue' = r.load_queue
                /\ unload_queue' = r.unload_queue
                /\ fault' = r.fault
                /\ ev' = UpdateCall(by, <<cx, cy, hex, slowmo, pad>>,
                                    prev_call = <<cx, cy, hex, slowmo, pad>>, r)
                /\ prev_call' = <<cx, cy, hex, slowmo, pad>>

\* the handler leaves the ChunkManager alone
no_call(by) ==
    /\ UNCHANGED <<mgr, fault, prev_call>>
    /\ ev' = NoCall

(***************************************************************************)
(* Game.__init__: hex mode, padding 0, immediate mode, the player in the   *)
(* middle of chunk (0, 0), and the initial update on an empty manager.     *)
(***************************************************************************)
Init ==
    LET p0   == [x |-> CHUNK_SIZE \div 2, y |-> CHUNK_SIZE \div 2]
        c0   == get_chunk_coords(p0, TRUE)
        req0 == get_required_chunks(c0[1], c0[2], TRUE, 0)
        r    == update({}, <<>>, <<>>, req0, FALSE,
                       Ascending(to_unload({}, req0)), Ascending(to_load({}, req0)))
    IN  /\ hex_mode = TRUE
        /\ padding = 0
        /\ slowmo_mode = FALSE
        /\ slowmo_frame_counter = 0
        /\ slowmo_interval = DEFAULT_SLOWMO_INTERVAL
        /\ player = p0
        /\ required = req0
        /\ chunks = r.chunks
        /\ load_queue = r.load_queue
        /\ unload_queue = r.unload_queue
        /\ fault = r.fault
        /\ last_chunk = c0
        /\ pc = "events"
        /\ ev = UpdateCall("__init__", <<c0[1], c0[2], TRUE, FALSE, 0>>, FALSE, r)
        /\ prev_call = <<c0[1], c0[2], TRUE, FALSE, 0>>
        /\ deferred_updates = 0
        /\ deferred_frames = 0

(***************************************************************************)
(* Game.run: each pass of the loop handles the pending key events, then    *)
(* calls handle_input, then process_slowmo.  pc = "events" is the top of   *)
(* the loop.  An uncaught KeyError ends the program.                       *)
(***************************************************************************)
Keys == {-1, 0, 1}

InBox(p) ==
    /\ p.x >= CHUNK_SIZE \div 2
    /\ p.x <= CHUNK_SIZE \div 2 + MaxStepsX * PLAYER_SPEED
    /\ p.y >= CHUNK_SIZE \div 2
    /\ p.y <= CHUNK_SIZE \div 2 + MaxStepsY * PLAYER_SPEED

\* mutant: update is called after every move, whether or not the cell changed
handle_input_every_move(kx, ky) ==
    LET dx == kx * PLAYER_SPEED
        dy == ky * PLAYER_SPEED
        moved == [x |-> player.x + dx, y |-> player.y + dy]
        current_chunk == get_chunk_coords(moved, hex_mode)
    IN  /\ pc = "events" /\ fault # "KeyError"
        /\ pc' = "slowmo"
        /\ UNCHANGED <<hex_mode, padding, slowmo_mode, slowmo_frame_counter, slowmo_interval>>
        /\ IF dx # 0 \/ dy # 0
           THEN /\ player' = moved
                /\ call_update("handle_input", current_chunk[1], current_chunk[2],
                               hex_mode, slowmo_mode, padding)
                /\ last_chunk' = current_chunk
           ELSE /\ no_call("handle_input")
                /\ UNCHANGED <<player, last_chunk>>

\* keys[K_d] - keys[K_a] = kx, keys[K_s] - keys[K_w] = ky
handle_input(kx, ky) ==
    LET dx == kx * PLAYER_SPEED
        dy == ky * PLAYER_SPEED
        moved == [x |-> player.x + dx, y |-> player.y + dy]
        current_chunk == get_chunk_coords(moved, hex_mode)
    IN  /\ pc = "events" /\ fault # "KeyError"
        /\ pc' = "slowmo"
        /\ UNCHANGED <<hex_mode, padding, slowmo_mode, slowmo_frame_counter, slowmo_interval>>
        /\ IF dx # 0 \/ dy # 0
           THEN /\ player' = moved
                /\ IF current_chunk # last_chunk
                   THEN /\ call_update("handle_input", current_chunk[1], current_chunk[2],
                                       hex_mode, slowmo_mode, padding)
                        /\ last_chunk' = current_chunk
                   ELSE /\ no_call("handle_input")
                        /\ UNCHANGED last_chunk
           ELSE /\ no_call("handle_input")
                /\ UNCHANGED <<player, last_chunk>>

\* mutant: the topology changes and update is called for the cell the player
\* had in the old topology, last_chunk is not computed again
toggle_mode_stale_cell ==
    /\ pc = "events" /\ fault # "KeyError"
    /\ hex_mode' = ~hex_mode
    /\ call_update("toggle_mode", last_chunk[1], last_chunk[2], hex_mode', slowmo_mode, padding)
    /\ UNCHANGED <<padding, slowmo_mode, slowmo_frame_counter, slowmo_interval, player, pc,
                   last_chunk>>

toggle_mode ==
    /\ pc = "events" /\ fault # "KeyError"
    /\ hex_mode' = ~hex_mode
    /\ last_chunk' = get_chunk_coords(player, hex_mode')
    /\ call_update("toggle_mode", last_chunk'[1], last_chunk'[2], hex_mode', slowmo_mode, padding)
    /\ UNCHANGED <<padding, slowmo_mode, slowmo_frame_counter, slowmo_interval, player, pc>>

\* mutant: leaving deferred mode without the flushing update
toggle_slowmo_no_flush ==
    /\ pc = "events" /\ fault # "KeyError"
    /\ slowmo_mode' = ~slowmo_mode
    /\ slowmo_frame_counter' = 0
    /\ no_call("toggle_slowmo")
    /\ UNCHANGED <<hex_mode, padding, slowmo_interval, player, pc, last_chunk>>

toggle_slowmo ==
    /\ pc = "events" /\ fault # "KeyError"
    /\ slowmo_mode' = ~slowmo_mode
    /\ slowmo_frame_counter' = 0
    /\ IF ~slowmo_mode'
       THEN /\ last_chunk' = get_chunk_coords(player, hex_mode)
            /\ call_update("toggle_slowmo", last_chunk'[1], last_chunk'[2], hex_mode, FALSE, padding)
       ELSE /\ no_call("toggle_slowmo")
            /\ UNCHANGED last_chunk
    /\ UNCHANGED <<hex_mode, padding, slowmo_interval, player, pc>>

\* mutant: max(0, self.padding + delta), the upper clamp lost
adjust_padding_no_upper_clamp(delta) ==
    LET old_padding == padding
        new_padding == IF padding + delta < 0 THEN 0 ELSE padding + delta
    IN  /\ pc = "events" /\ fault # "KeyError"
        /\ padding' = new_padding
        /\ IF new_padding # old_padding
           THEN /\ last_chunk' = get_chunk_coords(player, hex_mode)
                /\ call_update("adjust_padding", last_chunk'[1], last_chunk'[2],
                               hex_mode, slowmo_mode, new_padding)
           ELSE /\ no_call("adjust_padding")
                /\ UNCHANGED last_chunk
        /\ UNCHANGED <<hex_mode, slowmo_mode, slowmo_frame_counter, slowmo_interval, player, pc>>

adjust_padding(delta) ==
    LET old_padding == padding
        new_padding == IF padding + delta > max_padding THEN max_padding
                       ELSE IF padding + delta < 0 THEN 0
                       ELSE padding + delta
    IN  /\ pc = "events" /\ fault # "KeyError"
        /\ padding' = new_padding
        /\ IF new_padding # old_padding
           THEN /\ last_chunk' = get_chunk_coords(player, hex_mode)
                /\ call_update("adjust_padding", last_chunk'[1], last_chunk'[2],
                               hex_mode, slowmo_mode, new_padding)
           ELSE /\ no_call("adjust_padding")
                /\ UNCHANGED last_chunk
        /\ UNCHANGED <<hex_mode, slowmo_mode, slowmo_frame_counter, slowmo_interval, player, pc>>

\* mutant: > in place of >=
interval_elapsed_strict(counter, interval) == counter > interval

\* if self.slowmo_frame_counter >= self.slowmo_interval
interval_elapsed(counter, interval) == counter >= interval

process_slowmo ==
    /\ pc = "slowmo" /\ fault # "KeyError"
    /\ pc' = "events"
    /\ UNCHANGED <<hex_mode, padding, slowmo_mode, slowmo_interval, player, last_chunk>>
    /\ IF ~slowmo_mode
       THEN /\ no_call("process_slowmo")
            /\ UNCHANGED slowmo_frame_counter
       ELSE IF interval_elapsed(slowmo_frame_counter + 1, slowmo_interval)
       THEN LET r == process_slowmo_tick(chunks, load_queue, unload_queue)
            IN  /\ slowmo_frame_counter' = 0
                /\ chunks' = r.chunks
                /\ load_queue' = r.load_queue
                /\ unload_queue' = r.unload_queue
                /\ fault' = r.fault
                /\ ev' = TickCall("process_slowmo", r)
                /\ prev_call' = <<>>
                /\ UNCHANGED required
       ELSE /\ slowmo_frame_counter' = slowmo_frame_counter + 1
            /\ no_call("process_slowmo")

\* mutant: the counter is left alone when the interval changes
adjust_slowmo_interval_keeps_counter(delta) ==
    LET new_interval == IF slowmo_interval + delta < 1 THEN 1 ELSE slowmo_interval + delta
    IN  /\ pc = "events" /\ fault # "KeyError"
        /\ slowmo_interval' = new_interval
        /\ no_call("adjust_slowmo_interval")
        /\ UNCHANGED <<hex_mode, padding, slowmo_mode, slowmo_frame_counter, player,
                       last_chunk, pc>>

adjust_slowmo_interval(delta) ==
    LET old_interval == slowmo_interval
        new_interval == IF slowmo_interval + delta < 1 THEN 1 ELSE slowmo_interval + delta
    IN  /\ pc = "events" /\ fault # "KeyError"
        /\ slowmo_interval' = new_interval
        /\ slowmo_frame_counter' =
               IF new_interval # old_interval
               THEN (IF slowmo_frame_counter < new_interval - 1
                     THEN slowmo_frame_counter ELSE new_interval - 1)
               ELSE slowmo_frame_counter
        /\ no_call("adjust_slowmo_interval")
        /\ UNCHANGED <<hex_mode, padding, slowmo_mode, player, last_chunk, pc>>

\* run() passes +1 and -1 to adjust_padding.  adjust_slowmo_interval takes any
\* integer: -DEFAULT_SLOWMO_INTERVAL brings the initial interval down to the
\* clamp, and single steps walk it from there.
PaddingDeltas == {-1, 1}
IntervalDeltas == {-DEFAULT_SLOWMO_INTERVAL, -1, 1}

\* The history counters of a stretch of deferred mode: toggle_slowmo starts
\* them again, a deferred update and a pass of the main loop in deferred mode
\* count.
CountUpdates ==
    deferred_updates' =
        IF slowmo_mode' # slowmo_mode THEN 0
        ELSE IF ev'.op = "update" /\ ev'.args[4] THEN deferred_updates + 1
        ELSE deferred_updates

CountFrames ==
    deferred_frames' =
        IF slowmo_mode' # slowmo_mode THEN 0
        ELSE IF slowmo_mode /\ pc = "events" /\ pc' = "slowmo" THEN deferred_frames + 1
        ELSE deferred_frames

CountDeferred == CountUpdates /\ CountFrames

\* The part of the program's behaviour that Spec explores: the player inside
\* the box, the padding up to MaxPad, deferred mode and changes of the
\* interval with an interval up to MaxInterval, and the budgets of a stretch
\* of deferred mode.
Explored ==
    /\ CountDeferred
    /\ InBox(player')
    /\ padding' <= MaxPad
    /\ slowmo_interval' # slowmo_interval => slowmo_interval' <= MaxInterval
    /\ slowmo_mode' => slowmo_interval' <= MaxInterval
    /\ deferred_updates' <= MaxDeferredUpdates
    /\ deferred_frames' <= MaxDeferredFrames

\* Where the state before a handler already decides a bound of Explored, the
\* handler is not run: the budgets of deferred mode,
UpdateBudget == slowmo_mode => deferred_updates < MaxDeferredUpdates
FrameBudget == slowmo_mode => deferred_frames < MaxDeferredFrames
\* the position after the keys kx, ky,
Moved(kx, ky) == [x |-> player.x + kx * PLAYER_SPEED, y |-> player.y + ky * PLAYER_SPEED]
\* and a delta that changes the padding.
PaddingMoves(delta) == delta # 0 /\ padding + delta >= 0 /\ padding + delta <= max_padding

Next ==
    \/ \E kx \in Keys, ky \in Keys :
          /\ InBox(Moved(kx, ky)) /\ FrameBudget
          /\ ((kx # 0 \/ ky # 0) /\ get_chunk_coords(Moved(kx, ky), hex_mode) # last_chunk)
                 => UpdateBudget
          /\ handle_input(kx, ky) /\ Explored
    \/ process_slowmo /\ Explored
    \/ UpdateBudget /\ toggle_mode /\ Explored
    \/ toggle_slowmo /\ Explored
    \/ \E delta \in PaddingDeltas :
          /\ padding + delta <= MaxPad
          /\ PaddingMoves(delta) => UpdateBudget
          /\ adjust_padding(delta) /\ Explored
    \/ \E delta \in IntervalDeltas : adjust_slowmo_interval(delta) /\ Explored

Spec == Init /\ [][Next]_vars

(***************************************************************************)
(* SpecCells: the game in immediate mode around any cell, in either        *)
(* topology and with any padding.  It starts where the player has walked   *)
(* to the last position before the right edge of a cell, has set the       *)
(* topology and the padding, and an idle pass of the main loop has ended:  *)
(* the manager holds the required set of that cell.  From there the player *)
(* steps across that edge and back, and the topology and the padding       *)
(* change.                                                                  *)
(***************************************************************************)
Cells == ((-MaxCell)..MaxCell) \X ((-MaxCell)..MaxCell)

\* the positions the player takes when walking right from the start position
\* are CHUNK_SIZE \div 2 + k * PLAYER_SPEED; the last one inside cell c, on the
\* middle line of its row
RightEdgePoint(c) ==
    [x |-> c[1] * CHUNK_SIZE + CHUNK_SIZE \div 2
               + ((CHUNK_SIZE \div 2 - 1) \div PLAYER_SPEED) * PLAYER_SPEED,
     y |-> c[2] * CHUNK_SIZE + CHUNK_SIZE \div 2]

InitCells ==
    \E c \in Cells, hex \in BOOLEAN, pad \in 0..max_padding :
        /\ hex_mode = hex
        /\ padding = pad
        /\ slowmo_mode = FALSE
        /\ slowmo_frame_counter = 0
        /\ slowmo_interval = DEFAULT_SLOWMO_INTERVAL
        /\ player = RightEdgePoint(c)
        /\ last_chunk = get_chunk_coords(player, hex)
        /\ required = get_required_chunks(last_chunk[1], last_chunk[2], hex, pad)
        /\ chunks = required
        /\ load_queue = <<>>
        /\ unload_queue = <<>>
        /\ fault = "none"
        /\ pc = "events"
        /\ ev = NoCall
        /\ prev_call = <<last_chunk[1], last_chunk[2], hex, FALSE, pad>>
        /\ deferred_updates = 0
        /\ deferred_frames = 0

\* the player stays on the two positions around the right edge of its cell
AtEdge(p) ==
    \E c \in Cells :
        /\ p.y = RightEdgePoint(c).y
        /\ p.x \in {RightEdgePoint(c).x, RightEdgePoint(c).x + PLAYER_SPEED}

NextCells ==
    \/ \E kx \in Keys, ky \in Keys :
          AtEdge(Moved(kx, ky)) /\ handle_input(kx, ky) /\ CountDeferred
    \/ process_slowmo /\ CountDeferred
    \/ toggle_mode /\ CountDeferred
    \/ \E delta \in PaddingDeltas : adjust_padding(delta) /\ CountDeferred

SpecCells == InitCells /\ [][NextCells]_vars

(***************************************************************************)
(* SpecConfig: the constructed game, with adjust_padding and               *)
(* adjust_slowmo_interval called in any order with small and large deltas  *)
(* of both signs and with 0.                                                *)
(***************************************************************************)
ConfigDeltas == {-MaxDelta, -1, 0, 1, MaxDelta}

NextConfig ==
    \/ \E delta \in ConfigDeltas : adjust_padding(delta) /\ CountDeferred
    \/ \E delta \in ConfigDeltas :
          /\ slowmo_interval + delta <= MaxConfigInterval
          /\ adjust_slowmo_interval(delta) /\ CountDeferred

SpecConfig == Init /\ [][NextConfig]_vars

(***************************************************************************)
(* SpecLive: the game with the main loop running for ever.  Game.run goes   *)
(* round its loop as long as the program runs: each pass handles the       *)
(* finitely many pending events, then calls handle_input and               *)
(* process_slowmo, so these two are taken again and again (weak fairness); *)
(* key events come as the user likes.  The passes of the loop are not      *)
(* counted here, the deferred updates of a stretch are.                    *)
(***************************************************************************)
ExploredLive ==
    /\ CountUpdates
    /\ UNCHANGED deferred_frames
    /\ InBox(player')
    /\ padding' = padding
    /\ slowmo_interval' # slowmo_interval => slowmo_interval' <= MaxInterval
    /\ slowmo_mode' => slowmo_interval' <= MaxInterval
    /\ deferred_updates' <= MaxDeferredUpdates

FrameInput ==
    \E kx \in Keys, ky \in Keys :
        /\ InBox(Moved(kx, ky))
        /\ ((kx # 0 \/ ky # 0) /\ get_chunk_coords(Moved(kx, ky), hex_mode) # last_chunk)
               => UpdateBudget
        /\ handle_input(kx, ky) /\ ExploredLive

FrameSlowmo == process_slowmo /\ ExploredLive

NextLive ==
    \/ FrameInput
    \/ FrameSlowmo
    \/ UpdateBudget /\ toggle_mode /\ ExploredLive
    \/ toggle_slowmo /\ ExploredLive
    \/ \E delta \in IntervalDeltas : adjust_slowmo_interval(delta) /\ ExploredLive

SpecLive ==
    /\ Init /\ [][NextLive]_vars
    /\ WF_vars(FrameInput) /\ WF_vars(FrameSlowmo)

(***************************************************************************)
(* SpecTrack: the game around the right edge of a cell of an even or an    *)
(* odd row, where the cell of a position depends on the topology: in an    *)
(* odd row the position just past the edge lies in the next cell of the    *)
(* square grid and still in the same cell of the hex grid.  It starts as   *)
(* SpecCells does, and every handler of the claim runs: moves across the   *)
(* edge and back, both toggles, the padding, the interval, and the passes  *)
(* of the main loop with their ticks.                                      *)
(***************************************************************************)
TrackCells == {0} \X ((-MaxRow)..MaxRow)

InitTrack ==
    /\ InitCells
    /\ last_chunk \in TrackCells
    /\ padding <= MaxPad

\* the bounds of Explored, the box of the player left to AtEdge
ExploredTrack ==
    /\ CountDeferred
    /\ padding' <= MaxPad
    /\ slowmo_interval' # slowmo_interval => slowmo_interval' <= MaxInterval
    /\ slowmo_mode' => slowmo_interval' <= MaxInterval
    /\ deferred_updates' <= MaxDeferredUpdates
    /\ deferred_frames' <= MaxDeferredFrames

NextTrack ==
    \/ \E kx \in Keys, ky \in Keys :
          /\ AtEdge(Moved(kx, ky)) /\ FrameBudget
          /\ ((kx # 0 \/ ky # 0) /\ get_chunk_coords(Moved(kx, ky), hex_mode) # last_chunk)
                 => UpdateBudget
          /\ handle_input(kx, ky) /\ ExploredTrack
    \/ process_slowmo /\ ExploredTrack
    \/ UpdateBudget /\ toggle_mode /\ ExploredTrack
    \/ toggle_slowmo /\ ExploredTrack
    \/ \E delta \in PaddingDeltas :
          /\ padding + delta <= MaxPad
          /\ PaddingMoves(delta) => UpdateBudget
          /\ adjust_padding(delta) /\ ExploredTrack
    \/ \E delta \in IntervalDeltas : adjust_slowmo_interval(delta) /\ ExploredTrack

SpecTrack == InitTrack /\ [][NextTrack]_vars

(***************************************************************************)
(* SpecCounter: the constructed game with the player standing still.  The  *)
(* main loop runs (handle_input without a key, then process_slowmo),       *)
(* toggle_slowmo and adjust_slowmo_interval are called in any order with   *)
(* small and large deltas of both signs and with 0, and toggle_mode in     *)
(* deferred mode fills the queues, so that ticks have operations to apply. *)
(* The passes of the loop are not counted, the deferred updates of a       *)
(* stretch are.                                                             *)
(***************************************************************************)
ExploredCounter ==
    /\ CountUpdates
    /\ UNCHANGED deferred_frames
    /\ deferred_updates' <= MaxDeferredUpdates

NextCounter ==
    \/ handle_input(0, 0) /\ ExploredCounter
    \/ process_slowmo /\ ExploredCounter
    \/ toggle_slowmo /\ ExploredCounter
    \/ UpdateBudget /\ toggle_mode /\ ExploredCounter
    \/ \E delta \in ConfigDeltas :
          /\ slowmo_interval + delta <= MaxConfigInterval
          /\ adjust_slowmo_interval(delta) /\ ExploredCounter

SpecCounter == Init /\ [][NextCounter]_vars

(***************************************************************************)
(* Properties.                                                             *)
(***************************************************************************)
\* the last handler called update in immediate / in deferred mode
Immediate(e) == e.op = "update" /\ ~e.args[4]
Deferred(e) == e.op = "update" /\ e.args[4]
\* the required set of the call's arguments
RequiredOf(e) == get_required_chunks(e.args[1], e.args[2], e.args[3], e.args[5])

\* C1: after update(cx, cy, hex_mode, slowmo=False, padding) returns, the keys
\* of chunks are exactly get_required_chunks(cx, cy, hex_mode, padding) and
\* both queues are empty.
C1_ImmediateDiff ==
    Immediate(ev) =>
        /\ chunks = RequiredOf(ev)
        /\ required = RequiredOf(ev)
        /\ load_queue = <<>>
        /\ unload_queue = <<>>

\* a move into a new cell in immediate mode created and destroyed chunks
C1_Witness ==
    /\ Immediate(ev) /\ ev.by = "handle_input"
    /\ ev.created # {} /\ ev.destroyed # {}

\* C2: in every reachable state no coordinate is in both queues, no coordinate
\* of load_queue is resident, and every coordinate of unload_queue is resident.
C2_PendingQueues ==
    /\ Range(load_queue) \cap Range(unload_queue) = {}
    /\ Range(load_queue) \cap chunks = {}
    /\ Range(unload_queue) \subseteq chunks

\* both queues hold entries after a second deferred update kept earlier ones
C2_Witness ==
    /\ Deferred(ev) /\ ev.counts.kept_l > 0 /\ ev.counts.kept_u > 0
    /\ load_queue # <<>> /\ unload_queue # <<>>

\* C3: after every update with slowmo=True every coordinate of load_queue is
\* in the new required set and no coordinate of unload_queue is.
C3_DeferredCancellation ==
    Deferred(ev) =>
        /\ required = RequiredOf(ev)
        /\ Range(load_queue) \subseteq RequiredOf(ev)
        /\ Range(unload_queue) \cap RequiredOf(ev) = {}

\* a deferred update removed a load that an earlier update had queued
C3_Witness == Deferred(ev) /\ ev.counts.cancelled_l > 0

\* C4: a tick that finds both queues non-empty applies the unload at the head
\* of unload_queue and leaves load_queue unchanged; a tick creates a chunk
\* only when no unload is pending.
C4_UnloadPriority ==
    [][ev'.op = "tick" =>
          /\ (unload_queue # <<>> /\ load_queue # <<>>) =>
                 /\ load_queue' = load_queue
                 /\ unload_queue' = Tail(unload_queue)
                 /\ chunks' = chunks \ {Head(unload_queue)}
                 /\ ev'.destroyed = {Head(unload_queue)}
          /\ ev'.created # {} => unload_queue = <<>>]_vars

\* a tick destroyed a chunk while loads stayed pending
C4_Witness ==
    /\ ev.op = "tick" /\ ev.destroyed # {} /\ ev.created = {}
    /\ load_queue # <<>>

SymDiff(A, B) == (A \ B) \cup (B \ A)

\* C5: while deferred mode stays on and the interval stays N, the frame counter
\* counts the calls of process_slowmo since the last tick, process_slowmo
\* ticks exactly when that count reaches N, a tick applies exactly one queued
\* operation when a queue is non-empty, and nothing else creates or destroys
\* a chunk.
C5_RateLimit ==
    [][/\ (pc = "slowmo" /\ pc' = "events" /\ slowmo_mode) =>
            /\ (ev'.op = "tick") = (slowmo_frame_counter + 1 = slowmo_interval)
            /\ ev'.op = "tick" =>
                   /\ slowmo_frame_counter' = 0
                   /\ Cardinality(SymDiff(chunks, chunks')) =
                          (IF load_queue = <<>> /\ unload_queue = <<>> THEN 0 ELSE 1)
                   /\ SymDiff(chunks, chunks') = ev'.created \cup ev'.destroyed
            /\ ev'.op # "tick" =>
                   /\ slowmo_frame_counter' = slowmo_frame_counter + 1
                   /\ chunks' = chunks
       /\ (pc = "events" /\ slowmo_mode /\ slowmo_mode'
              /\ slowmo_interval' = slowmo_interval) =>
            /\ slowmo_frame_counter' = slowmo_frame_counter
            /\ chunks' = chunks]_vars

\* with an interval of 2 or more, a tick applied one queued operation
C5_Witness ==
    /\ ev.op = "tick" /\ slowmo_interval >= 2
    /\ Cardinality(ev.created \cup ev.destroyed) = 1

\* C6: after toggle_slowmo switches deferred mode off, the resident set is the
\* required set of the player's current cell, topology and padding, and both
\* queues are empty.
C6_FlushOnLeave ==
    [][(slowmo_mode /\ ~slowmo_mode') =>
          LET c == get_chunk_coords(player', hex_mode')
          IN  /\ chunks' = get_required_chunks(c[1], c[2], hex_mode', padding')
              /\ required' = chunks'
              /\ last_chunk' = c
              /\ load_queue' = <<>>
              /\ unload_queue' = <<>>]_vars

\* leaving deferred mode dropped pending loads and unloads and applied them
C6_Witness ==
    /\ Immediate(ev) /\ ev.by = "toggle_slowmo"
    /\ ev.counts.cancelled_l > 0 /\ ev.counts.cancelled_u > 0
    /\ ev.created # {} /\ ev.destroyed # {}

\* C7: update with slowmo=True leaves chunks unchanged, and while deferred mode
\* stays on only a tick changes chunks.
C7_DeferredFrame ==
    [][/\ Deferred(ev') => (chunks' = chunks /\ ev'.created = {} /\ ev'.destroyed = {})
       /\ (slowmo_mode /\ slowmo_mode' /\ chunks' # chunks) => ev'.op = "tick"]_vars

\* a deferred update queued loads and unloads
C7_Witness ==
    /\ Deferred(ev) /\ ev.counts.appended_l > 0 /\ ev.counts.appended_u > 0

\* the entries of q that are still in q2 come first in q2, in q's order
OrderKept(q, q2) ==
    LET kept == SelectSeq(q, LAMBDA c : c \in Range(q2))
    IN  /\ Len(kept) <= Len(q2)
        /\ kept = SubSeq(q2, 1, Len(kept))

\* C8: in each queue the surviving entries keep their relative order and stay
\* ahead of the entries a later update appends, and a tick removes the head of
\* the queue it serves.
C8_Fifo ==
    [][/\ OrderKept(load_queue, load_queue')
       /\ OrderKept(unload_queue, unload_queue')
       /\ ev'.op = "tick" =>
            /\ unload_queue # <<>> =>
                   /\ unload_queue' = Tail(unload_queue)
                   /\ ev'.destroyed = {Head(unload_queue)}
            /\ (unload_queue = <<>> /\ load_queue # <<>>) =>
                   /\ load_queue' = Tail(load_queue)
                   /\ ev'.created = {Head(load_queue)}]_vars

\* one deferred update kept earlier loads, cancelled others and appended new ones
C8_Witness ==
    /\ Deferred(ev) /\ ev.counts.kept_l > 0
    /\ ev.counts.cancelled_l > 0 /\ ev.counts.appended_l > 0

\* C9: no `del self.chunks[coord]` meets an absent key and no assignment to
\* self.chunks[coord] replaces a resident chunk.
C9_NoFault == fault = "none"

\* a tick created a chunk
C9_Witness == ev.op = "tick" /\ ev.created # {} /\ fault = "none"

\* C10: an immediate update that follows an immediate update with the same
\* cell, topology and padding creates and destroys nothing and leaves chunks,
\* required and both queues as they were.
C10_Idempotent ==
    [][(Immediate(ev') /\ prev_call = ev'.args) =>
          /\ ev'.created = {} /\ ev'.destroyed = {}
          /\ chunks' = chunks
          /\ required' = required
          /\ load_queue' = load_queue
          /\ unload_queue' = unload_queue]_vars

\* an immediate update repeated the arguments of the call before it
C10_Witness == Immediate(ev) /\ ev.repeat

\* C11: when handle_input moves the player and the player's cell under the
\* current topology equals last_chunk, update is not called and chunks,
\* required, both queues and last_chunk are unchanged; when the cell differs,
\* update is called with the new cell, the current topology, mode and padding,
\* and last_chunk becomes the new cell.
C11_ReconcileOnCellChange ==
    [][(pc = "events" /\ pc' = "slowmo" /\ player' # player) =>
          LET cell == get_chunk_coords(player', hex_mode)
          IN  IF cell = last_chunk
              THEN /\ ev'.op = "none"
                   /\ UNCHANGED <<chunks, required, load_queue, unload_queue, last_chunk>>
              ELSE /\ ev'.op = "update" /\ ev'.by = "handle_input"
                   /\ ev'.args = <<cell[1], cell[2], hex_mode, slowmo_mode, padding>>
                   /\ required' = get_required_chunks(cell[1], cell[2], hex_mode, padding)
                   /\ last_chunk' = cell]_vars

\* a move took the player into the row below the start cell and handle_input
\* called update for the new cell
C11_Witness ==
    /\ ev.op = "update" /\ ev.by = "handle_input"
    /\ last_chunk = <<0, 1>> /\ pc = "slowmo"

\* C12: for the cell (x, y) the player is in and the current topology, every
\* point of [wx, wx + CHUNK_SIZE) x [wy, wy + CHUNK_SIZE), where
\* (wx, wy) = chunk_world_pos(x, y), is mapped by get_chunk_coords to (x, y).
\* The points are those with integer coordinates: the quotient by CHUNK_SIZE
\* has the same floor for every point between two of them.
C12_MappingInvertsOffset ==
    LET w == chunk_world_pos(last_chunk[1], last_chunk[2], hex_mode)
    IN  \A px \in w[1]..(w[1] + CHUNK_SIZE - 1), py \in w[2]..(w[2] + CHUNK_SIZE - 1) :
            get_chunk_coords([x |-> px, y |-> py], hex_mode) = last_chunk

\* toggle_mode mapped the player, standing right of a cell edge in an odd row
\* with negative coordinates, to the cell left of that edge in hex mode
C12_Witness ==
    /\ ev.op = "update" /\ ev.by = "toggle_mode" /\ hex_mode
    /\ player = [x |-> -98, y |-> -50]
    /\ last_chunk = <<-2, -1>>

\* C13: for the player's cell (cx, cy), the current topology and the current
\* padding, get_required_chunks(cx, cy, hex_mode, padding) contains (cx, cy),
\* and the required set that an update call computed contains the cell it was
\* called with.
C13_ContainsCenter ==
    /\ last_chunk \in get_required_chunks(last_chunk[1], last_chunk[2], hex_mode, padding)
    /\ ev.op = "update" => <<ev.args[1], ev.args[2]>> \in required

\* update was called in hex mode for a cell of an odd row with negative
\* coordinates, with the largest padding
C13_Witness ==
    /\ ev.op = "update" /\ ev.args = <<-2, -1, TRUE, FALSE, max_padding>>
    /\ last_chunk = <<-2, -1>>

Abs(v) == IF v >= 0 THEN v ELSE -v

\* C14: for the player's cell (cx, cy) and the current padding p,
\* get_required_chunks with hex_mode=False has (2*(p+1)+1)^2 cells, all of
\* them within p+1 of the centre in x and in y (so it is exactly that square),
\* and in square topology it is the required set of the manager.
C14_SquareFootprint ==
    LET r    == padding + 1
        side == 2 * r + 1
        req  == get_required_chunks(last_chunk[1], last_chunk[2], FALSE, padding)
    IN  /\ Cardinality(req) = side * side
        /\ \A c \in req : Abs(c[1] - last_chunk[1]) <= r /\ Abs(c[2] - last_chunk[2]) <= r
        /\ ~hex_mode => required = req

\* update was called in square topology with the largest padding around a
\* cell with negative coordinates: the 11 x 11 = 121 chunks are resident
C14_Witness ==
    /\ ev.op = "update" /\ ~hex_mode /\ padding = max_padding
    /\ last_chunk = <<-2, -1>>
    /\ Cardinality(chunks) = 121

\* C15: for the player's cell (cx, cy), on an even or an odd row,
\* get_required_chunks with hex_mode=True and padding=0 has exactly 7 cells,
\* and in hex mode with padding 0 the manager's required set has 7 cells.
C15_HexSeven ==
    /\ Cardinality(get_required_chunks(last_chunk[1], last_chunk[2], TRUE, 0)) = 7
    /\ (hex_mode /\ padding = 0) => Cardinality(required) = 7

\* update was called in hex mode with padding 0 for a cell of an odd row with
\* negative coordinates: 7 chunks are resident
C15_Witness ==
    /\ ev.op = "update" /\ ev.args = <<-2, -1, TRUE, FALSE, 0>>
    /\ Cardinality(chunks) = 7

\* C16: in square topology and immediate mode, when the resident set is the
\* required set of cell (cx, cy) with padding p and update is called for cell
\* (cx+1, cy), the call destroys exactly the 2*(p+1)+1 chunks of column
\* x = cx-(p+1), creates exactly the 2*(p+1)+1 chunks of column x = cx+p+2,
\* and (2*(p+1)+1)^2 chunks are resident afterwards.
C16_OneCellMove ==
    [][LET cx == last_chunk[1]
           cy == last_chunk[2]
           r  == padding + 1
       IN  (/\ chunks = get_required_chunks(cx, cy, FALSE, padding)
            /\ ev'.op = "update"
            /\ ev'.args = <<cx + 1, cy, FALSE, FALSE, padding>>) =>
               /\ ev'.destroyed = {<<cx - r, cy + dy>> : dy \in (-r)..r}
               /\ ev'.created = {<<cx + r + 1, cy + dy>> : dy \in (-r)..r}
               /\ Cardinality(ev'.destroyed) = 2 * r + 1
               /\ Cardinality(ev'.created) = 2 * r + 1
               /\ Cardinality(chunks') = (2 * r + 1) * (2 * r + 1)]_vars

\* with padding 0 the player stepped from cell (0,0) into cell (1,0): 3 chunks
\* destroyed at x = -1, 3 created at x = 2, and {0,1,2} x {-1,0,1} resident
C16_Witness ==
    /\ ev.op = "update" /\ ev.by = "handle_input"
    /\ ev.args = <<1, 0, FALSE, FALSE, 0>>
    /\ ev.destroyed = {<<-1, -1>>, <<-1, 0>>, <<-1, 1>>}
    /\ ev.created = {<<2, -1>>, <<2, 0>>, <<2, 1>>}
    /\ chunks = (0..2) \X ((-1)..1)

\* C17: after any sequence of adjust_padding and adjust_slowmo_interval calls
\* 0 <= padding <= max_padding and slowmo_interval >= 1; a call that leaves
\* the padding at its value calls no update and leaves the manager and
\* last_chunk alone, and a call that changes it calls update with the new
\* padding.
C17_ConfigClamped ==
    /\ [](0 <= padding /\ padding <= max_padding /\ slowmo_interval >= 1)
    /\ [][IF padding' = padding
          THEN ev'.op = "none" /\ UNCHANGED <<chunks, required, load_queue, unload_queue,
                                               last_chunk>>
          ELSE ev'.op = "update" /\ ev'.by = "adjust_padding"
                   /\ ev'.args[5] = padding']_vars

\* one adjust_padding(MaxDelta) took the padding from 0 to max_padding (the
\* update created the chunks that padding max_padding adds to the 7 of
\* padding 0), and the interval is down at 1
C17_Witness ==
    /\ padding = max_padding /\ slowmo_interval = 1
    /\ ev.op = "update" /\ ev.by = "adjust_padding"
    /\ Cardinality(chunks \ ev.created) = 7

\* the offsets (dx, dy) from the centre that get_required_chunks admits in hex
\* mode, and their mirror image dx -> -dx
HexOffsets(cx, cy, pad) ==
    {<<c[1] - cx, c[2] - cy>> : c \in get_required_chunks(cx, cy, TRUE, pad)}
Mirror(D) == {<<-d[1], d[2]>> : d \in D}

\* C18: for the current padding, the offsets admitted in hex mode around the
\* player's cell are those admitted around (0, 0) when its row is even and
\* those admitted around (0, 1) when it is odd, whatever its x and its row;
\* the offsets of the odd row are the mirror image of those of the even row;
\* and in hex mode the manager's required set has these offsets.
C18_ReflectionConsistent ==
    LET D    == HexOffsets(last_chunk[1], last_chunk[2], padding)
        even == HexOffsets(0, 0, padding)
        odd  == HexOffsets(0, 1, padding)
    IN  /\ D = (IF last_chunk[2] % 2 = 0 THEN even ELSE odd)
        /\ odd = Mirror(even)
        /\ hex_mode => {<<c[1] - last_chunk[1], c[2] - last_chunk[2]>> : c \in required} = D

\* update was called in hex mode for a cell of an odd negative row: the cell
\* below and right of it is resident, the one below and left of it is not
C18_Witness ==
    /\ ev.op = "update" /\ hex_mode /\ padding = 0
    /\ last_chunk = <<1, -1>>
    /\ <<2, 0>> \in chunks /\ <<0, 0>> \notin chunks

NoDuplicates(q) == \A i, j \in 1..Len(q) : q[i] = q[j] => i = j

\* C19: in every reachable state in deferred mode, load_queue has no entry
\* twice and holds exactly the required coordinates that are not resident,
\* and unload_queue has no entry twice and holds exactly the resident
\* coordinates that are not required.
C19_QueuesAreDiff ==
    slowmo_mode =>
        /\ NoDuplicates(load_queue)
        /\ Range(load_queue) = required \ chunks
        /\ NoDuplicates(unload_queue)
        /\ Range(unload_queue) = chunks \ required

\* in deferred mode a tick has created a chunk and other loads are still
\* pending
C19_Witness ==
    /\ slowmo_mode /\ ev.op = "tick" /\ ev.created # {}
    /\ load_queue # <<>> /\ required \ chunks # {}

\* both queues are empty and the resident set is the required set
Drained == load_queue = <<>> /\ unload_queue = <<>> /\ chunks = required

\* the claim C20 as stated: if from some point on deferred mode stays on and
\* update is not called any more, then from some point on both queues are
\* empty and the resident set equals required
C20_AsStated ==
    (<>[]slowmo_mode /\ <>[][ev'.op # "update"]_vars) => <>[]Drained

\* C20 (amended): if from some point on deferred mode stays on, update is not
\* called any more and the interval is not changed any more, then from some
\* point on both queues are empty and the resident set equals required; and
\* a tick creates a chunk only when no unload is pending.
C20_DeferredConverges ==
    /\ (<>[]slowmo_mode
          /\ <>[][ev'.op # "update" /\ slowmo_interval' = slowmo_interval]_vars)
            => <>[]Drained
    /\ [][(ev'.op = "tick" /\ ev'.created # {}) => unload_queue = <<>>]_vars

\* in deferred mode, after at least one deferred update, a tick has applied
\* the last pending operation, a load: both queues are empty again
C20_Witness ==
    /\ slowmo_mode /\ ev.op = "tick" /\ ev.created # {}
    /\ Drained /\ deferred_updates > 0

\* C21: in every reachable state (after every handler and every pass of the
\* main loop) last_chunk is the cell of the player's position in the current
\* topology and required is get_required_chunks of that cell, the topology
\* and the padding; and in immediate mode the resident set is that set.
C21_RequiredTracksObserver ==
    LET cell == get_chunk_coords(player, hex_mode)
    IN  /\ last_chunk = cell
        /\ required = get_required_chunks(cell[1], cell[2], hex_mode, padding)
        /\ ~slowmo_mode => chunks = required

\* the player stands where its cell depends on the topology, and
\* toggle_slowmo has left deferred mode there: its flush created and
\* destroyed chunks
C21_Witness ==
    /\ get_chunk_coords(player, TRUE) # get_chunk_coords(player, FALSE)
    /\ ~slowmo_mode /\ ev.op = "update" /\ ev.by = "toggle_slowmo"
    /\ ev.created # {} /\ ev.destroyed # {}

\* C22: in every reachable state 0 <= slowmo_frame_counter < slowmo_interval;
\* a process_slowmo in immediate mode leaves the counter alone; and a step
\* that lowers the interval calls no method of the manager and leaves the
\* resident set and both queues alone.
C22_CounterInsideInterval ==
    /\ [](0 <= slowmo_frame_counter /\ slowmo_frame_counter < slowmo_interval)
    /\ [][(pc = "slowmo" /\ pc' = "events" /\ ~slowmo_mode)
              => slowmo_frame_counter' = slowmo_frame_counter]_vars
    /\ [][slowmo_interval' < slowmo_interval
              => ev'.op = "none" /\ UNCHANGED <<chunks, load_queue, unload_queue>>]_vars

\* all three handlers have acted: deferred mode is on (toggle_slowmo), the
\* interval is below its initial value (adjust_slowmo_interval with a
\* negative delta), and the counter has been counted up (process_slowmo) to
\* interval - 1, the value a lowering cuts it to; a load is still pending
\* and the last handler called no method of the manager
C22_Witness ==
    /\ slowmo_mode /\ load_queue # <<>> /\ ev.op = "none" /\ pc = "events"
    /\ 1 < slowmo_interval /\ slowmo_interval < DEFAULT_SLOWMO_INTERVAL
    /\ slowmo_frame_counter = slowmo_interval - 1

====
